---- MODULE Spec2Model ----
(***************************************************************************)
(* zod-ai: typed function contracts over a JSON-speaking language model.   *)
(*                                                                         *)
(* The module models                                                       *)
(*   - validateFunction / makeAi            (src/src/ai.ts)                *)
(*   - makeTool / formatTools / handleToolCalls (src/src/tools.ts)         *)
(*   - trimGeneratedJsonSchema              (util, src/src/ai.test.ts)     *)
(* together with the parts of the platform they rest on: JSON.stringify,   *)
(* JSON.parse, zod's safeParse / function().implement and                  *)
(* zod-to-json-schema's zodToJsonSchema.                                   *)
(*                                                                         *)
(* Text (JSON documents, descriptions, string values) is a sequence of     *)
(* one-character strings, so that encoding and decoding are computed and   *)
(* never assumed.                                                          *)
(***************************************************************************)
EXTENDS Integers, Sequences, FiniteSets, TLC

(***************************************************************************)
(* Bounds of the model.                                                    *)
(***************************************************************************)
\* Largest number of tool-call requests in one dispatched batch.
MaxCalls == 2

(***************************************************************************)
(* JavaScript values.                                                      *)
(***************************************************************************)
Undefined == [k |-> "undefined"]
Str(s) == [k |-> "string", s |-> s]
Num(n) == [k |-> "number", n |-> n]
Bool(b) == [k |-> "boolean", b |-> b]
Arr(items) == [k |-> "array", items |-> items]
\* An object is its properties in insertion order, each [key, val].
Obj(fields) == [k |-> "object", fields |-> fields]

Prop(key, val) == [key |-> key, val |-> val]

Range(seq) == {seq[i] : i \in 1..Len(seq)}

\* The own property names of a value; a value that is not an object has none.
Keys(o) == IF o.k = "object" THEN {o.fields[i].key : i \in 1..Len(o.fields)} ELSE {}

\* "key in o"
HasKey(o, key) == key \in Keys(o)

\* o[key]: undefined when the property is absent.
Get(o, key) ==
    IF HasKey(o, key)
    THEN (CHOOSE p \in Range(o.fields) : p.key = key).val
    ELSE Undefined

\* o[key] = val: an existing property keeps its place, a new one is appended.
SetKey(fields, key, val) ==
    IF \E i \in 1..Len(fields) : fields[i].key = key
    THEN [i \in 1..Len(fields) |->
            IF fields[i].key = key THEN Prop(key, val) ELSE fields[i]]
    ELSE Append(fields, Prop(key, val))

\* Structural equality of two values (bun's toEqual): the order of an object's
\* properties and properties holding undefined are immaterial.
RECURSIVE DeepEqual(_, _)
DeepEqual(a, b) ==
    IF a.k # b.k THEN FALSE
    ELSE CASE a.k = "undefined" -> TRUE
           [] a.k = "string" -> a.s = b.s
           [] a.k = "number" -> a.n = b.n
           [] a.k = "boolean" -> a.b = b.b
           [] a.k = "array" ->
                /\ Len(a.items) = Len(b.items)
                /\ \A i \in 1..Len(a.items) : DeepEqual(a.items[i], b.items[i])
           [] a.k = "object" ->
                \A key \in Keys(a) \cup Keys(b) : DeepEqual(Get(a, key), Get(b, key))

(***************************************************************************)
(* Characters and text.                                                    *)
(***************************************************************************)
Quote == "\""
Digits == <<"0", "1", "2", "3", "4", "5", "6", "7", "8", "9">>

IsDigit(c) == \E d \in 1..10 : Digits[d] = c
DigitValue(c) == (CHOOSE d \in 1..10 : Digits[d] = c) - 1

\* Number.prototype.toString for a natural number: its decimal digits.
RECURSIVE NumberToString(_)
NumberToString(n) ==
    IF n < 10 THEN <<Digits[n + 1]>>
    ELSE NumberToString(n \div 10) \o <<Digits[(n % 10) + 1]>>

RECURSIVE DigitsToNumber(_)
DigitsToNumber(ds) ==
    IF ds = <<>> THEN 0
    ELSE 10 * DigitsToNumber(SubSeq(ds, 1, Len(ds) - 1)) + DigitValue(ds[Len(ds)])

\* String.prototype.split("").reverse().join("")
Reverse(s) == [i \in 1..Len(s) |-> s[Len(s) + 1 - i]]

(***************************************************************************)
(* JSON.stringify (compact form).  A property holding undefined is left    *)
(* out; stringifying undefined itself yields undefined.                    *)
(***************************************************************************)
RECURSIVE JSONstringify(_)
RECURSIVE StringifyItems(_, _)
RECURSIVE StringifyMembers(_, _, _)

JSONstringify(v) ==
    CASE v.k = "undefined" -> Undefined
      [] v.k = "string" -> Str(<<Quote>> \o v.s \o <<Quote>>)
      [] v.k = "number" -> Str(NumberToString(v.n))
      [] v.k = "boolean" ->
            Str(IF v.b THEN <<"t", "r", "u", "e">> ELSE <<"f", "a", "l", "s", "e">>)
      [] v.k = "array" -> Str(<<"[">> \o StringifyItems(v.items, 1) \o <<"]">>)
      [] v.k = "object" -> Str(<<"{">> \o StringifyMembers(v.fields, 1, TRUE) \o <<"}">>)

StringifyItems(items, i) ==
    IF i > Len(items) THEN <<>>
    ELSE (IF i > 1 THEN <<",">> ELSE <<>>)
         \o JSONstringify(items[i]).s
         \o StringifyItems(items, i + 1)

StringifyMembers(fields, i, first) ==
    IF i > Len(fields) THEN <<>>
    ELSE IF fields[i].val.k = "undefined" THEN StringifyMembers(fields, i + 1, first)
    ELSE (IF first THEN <<>> ELSE <<",">>)
         \o <<Quote>> \o fields[i].key \o <<Quote, ":">>
         \o JSONstringify(fields[i].val).s
         \o StringifyMembers(fields, i + 1, FALSE)

(***************************************************************************)
(* JSON.parse: a recursive-descent parser of compact JSON (strings without *)
(* escapes, natural numbers, true/false, arrays, objects).  The result is  *)
(* [ok |-> TRUE, value |-> v], or [ok |-> FALSE] for a SyntaxError.        *)
(***************************************************************************)
ParseFail == [ok |-> FALSE]
Parsed(v, next) == [ok |-> TRUE, value |-> v, next |-> next]

\* The character at position i, "" past the end.
At(t, i) == IF i \in 1..Len(t) THEN t[i] ELSE ""

StartsWith(t, i, word) ==
    /\ i + Len(word) - 1 <= Len(t)
    /\ SubSeq(t, i, i + Len(word) - 1) = word

\* t[i] is a quote: the string runs to the next quote.
ParseString(t, i) ==
    IF \E j \in (i + 1)..Len(t) : t[j] = Quote
    THEN LET j == CHOOSE j \in (i + 1)..Len(t) :
                    /\ t[j] = Quote
                    /\ \A m \in (i + 1)..(j - 1) : t[m] # Quote
         IN  IF \E m \in (i + 1)..(j - 1) : t[m] = "\\"
             THEN ParseFail
             ELSE Parsed(Str(SubSeq(t, i + 1, j - 1)), j + 1)
    ELSE ParseFail

\* t[i] is a digit: the number is the longest run of digits, with no leading 0.
ParseNumber(t, i) ==
    LET e == CHOOSE e \in i..Len(t) :
                /\ \A m \in i..e : IsDigit(t[m])
                /\ ~IsDigit(At(t, e + 1))
    IN  IF t[i] = "0" /\ e > i THEN ParseFail
        ELSE Parsed(Num(DigitsToNumber(SubSeq(t, i, e))), e + 1)

RECURSIVE ParseValue(_, _)
RECURSIVE ParseElements(_, _, _)
RECURSIVE ParseMembers(_, _, _)

ParseValue(t, i) ==
    LET c == At(t, i)
    IN  CASE c = Quote -> ParseString(t, i)
          [] IsDigit(c) -> ParseNumber(t, i)
          [] c = "t" -> IF StartsWith(t, i, <<"t", "r", "u", "e">>)
                        THEN Parsed(Bool(TRUE), i + 4) ELSE ParseFail
          [] c = "f" -> IF StartsWith(t, i, <<"f", "a", "l", "s", "e">>)
                        THEN Parsed(Bool(FALSE), i + 5) ELSE ParseFail
          [] c = "[" -> IF At(t, i + 1) = "]" THEN Parsed(Arr(<<>>), i + 2)
                        ELSE ParseElements(t, i + 1, <<>>)
          [] c = "{" -> IF At(t, i + 1) = "}" THEN Parsed(Obj(<<>>), i + 2)
                        ELSE ParseMembers(t, i + 1, <<>>)
          [] OTHER -> ParseFail

\* The elements of an array from position i on, after those in acc.
ParseElements(t, i, acc) ==
    LET r == ParseValue(t, i)
    IN  IF ~r.ok THEN ParseFail
        ELSE CASE At(t, r.next) = "," -> ParseElements(t, r.next + 1, Append(acc, r.value))
               [] At(t, r.next) = "]" -> Parsed(Arr(Append(acc, r.value)), r.next + 1)
               [] OTHER -> ParseFail

\* The members of an object from position i on, after those in acc.  A repeated
\* key takes the later value.
ParseMembers(t, i, acc) ==
    IF At(t, i) # Quote THEN ParseFail
    ELSE LET key == ParseString(t, i)
         IN  IF ~key.ok \/ At(t, key.next) # ":" THEN ParseFail
             ELSE LET r == ParseValue(t, key.next + 1)
                  IN  IF ~r.ok THEN ParseFail
                      ELSE LET fields == SetKey(acc, key.value.s, r.value)
                           IN  CASE At(t, r.next) = "," -> ParseMembers(t, r.next + 1, fields)
                                 [] At(t, r.next) = "}" -> Parsed(Obj(fields), r.next + 1)
                                 [] OTHER -> ParseFail

JSONparse(t) ==
    LET r == ParseValue(t, 1)
    IN  IF r.ok /\ r.next = Len(t) + 1 THEN [ok |-> TRUE, value |-> r.value]
        ELSE ParseFail

(***************************************************************************)
(* Thrown values.                                                          *)
(***************************************************************************)
\* tiny-invariant: invariant(condition, message) throws Error when condition fails.
InvariantError(message) == [name |-> "Error", message |-> message]
\* zod: a failed parse carries a ZodError.
ZodError == [name |-> "ZodError", message |-> "invalid"]
\* JSON.parse on text that is not JSON.
SyntaxError == [name |-> "SyntaxError", message |-> "JSON Parse error"]
\* Member access on undefined.
TypeError == [name |-> "TypeError", message |-> "undefined is not an object"]

Threw(error) == [ok |-> FALSE, error |-> error]
Returned(value) == [ok |-> TRUE, value |-> value]

(***************************************************************************)
(* zod types: the schema objects a signature is declared with.             *)
(***************************************************************************)
ZodString == [typeName |-> "ZodString"]
ZodNumber == [typeName |-> "ZodNumber"]
\* z.function() declares ZodUnknown as its return type until .returns() is called.
ZodUnknown == [typeName |-> "ZodUnknown"]
ZodArray(element) == [typeName |-> "ZodArray", type |-> element]
\* z.object(shape): the shape's properties in declaration order, each [key, type].
Field(key, type) == [key |-> key, type |-> type]
ZodObject(shape) == [typeName |-> "ZodObject", shape |-> shape]

\* z.function().args(...).returns(...).describe(...): parameters().items,
\* returnType() and description (undefined until .describe() is called).
ZodFunction(args, returns, description) ==
    [args |-> args, returns |-> returns, description |-> description]

\* schema.safeParse(v): [success |-> TRUE, data |-> d] or [success |-> FALSE].
\* An object schema is in zod's default "strip" mode: properties the shape does
\* not declare are accepted and left out of data.
RECURSIVE safeParse(_, _)
safeParse(schema, v) ==
    LET Fail == [success |-> FALSE]
        Ok(d) == [success |-> TRUE, data |-> d]
    IN  CASE schema.typeName = "ZodUnknown" -> Ok(v)
          [] schema.typeName = "ZodString" -> IF v.k = "string" THEN Ok(v) ELSE Fail
          [] schema.typeName = "ZodNumber" -> IF v.k = "number" THEN Ok(v) ELSE Fail
          [] schema.typeName = "ZodArray" ->
                IF v.k # "array" THEN Fail
                ELSE LET r == [i \in 1..Len(v.items) |-> safeParse(schema.type, v.items[i])]
                     IN  IF \A i \in 1..Len(v.items) : r[i].success
                         THEN Ok(Arr([i \in 1..Len(v.items) |-> r[i].data]))
                         ELSE Fail
          [] schema.typeName = "ZodObject" ->
                IF v.k # "object" THEN Fail
                ELSE LET shape == schema.shape
                         r == [i \in 1..Len(shape) |->
                                 safeParse(shape[i].type, Get(v, shape[i].key))]
                         Kept(p) == p.val.k # "undefined" \/ HasKey(v, p.key)
                     IN  IF \A i \in 1..Len(shape) : r[i].success
                         THEN Ok(Obj(SelectSeq(
                                 [i \in 1..Len(shape) |-> Prop(shape[i].key, r[i].data)],
                                 Kept)))
                         ELSE Fail

(***************************************************************************)
(* zod-to-json-schema.                                                     *)
(***************************************************************************)
K_type == <<"t", "y", "p", "e">>
K_properties == <<"p", "r", "o", "p", "e", "r", "t", "i", "e", "s">>
K_required == <<"r", "e", "q", "u", "i", "r", "e", "d">>
K_description == <<"d", "e", "s", "c", "r", "i", "p", "t", "i", "o", "n">>
K_items == <<"i", "t", "e", "m", "s">>
K_additionalProperties ==
    <<"a", "d", "d", "i", "t", "i", "o", "n", "a", "l",
      "P", "r", "o", "p", "e", "r", "t", "i", "e", "s">>
K_schema == <<"$", "s", "c", "h", "e", "m", "a">>
K_definitions == <<"d", "e", "f", "i", "n", "i", "t", "i", "o", "n", "s">>
K_result == <<"r", "e", "s", "u", "l", "t">>
K_input == <<"i", "n", "p", "u", "t">>

S_string == Str(<<"s", "t", "r", "i", "n", "g">>)
S_number == Str(<<"n", "u", "m", "b", "e", "r">>)
S_array == Str(<<"a", "r", "r", "a", "y">>)
S_object == Str(<<"o", "b", "j", "e", "c", "t">>)
S_draft07 ==
    Str(<<"h", "t", "t", "p", ":", "/", "/", "j", "s", "o", "n", "-", "s", "c", "h", "e",
          "m", "a", ".", "o", "r", "g", "/", "d", "r", "a", "f", "t", "-", "0", "7", "/",
          "s", "c", "h", "e", "m", "a", "#">>)

\* The JSON Schema of one type, as it appears nested in a document.  An unknown
\* type has the empty schema: no "type".
RECURSIVE JsonSchemaOf(_)
JsonSchemaOf(schema) ==
    CASE schema.typeName = "ZodUnknown" -> Obj(<<>>)
      [] schema.typeName = "ZodString" -> Obj(<<Prop(K_type, S_string)>>)
      [] schema.typeName = "ZodNumber" -> Obj(<<Prop(K_type, S_number)>>)
      [] schema.typeName = "ZodArray" ->
            Obj(<<Prop(K_type, S_array), Prop(K_items, JsonSchemaOf(schema.type))>>)
      [] schema.typeName = "ZodObject" ->
            LET shape == schema.shape
                props == [i \in 1..Len(shape) |->
                            Prop(shape[i].key, JsonSchemaOf(shape[i].type))]
                Required(f) == f.type.typeName # "ZodUnknown"
                names == [i \in 1..Len(SelectSeq(shape, Required)) |->
                            Str(SelectSeq(shape, Required)[i].key)]
            IN  Obj(<<Prop(K_type, S_object), Prop(K_properties, Obj(props))>>
                    \o (IF names = <<>> THEN <<>> ELSE <<Prop(K_required, Arr(names))>>)
                    \o <<Prop(K_additionalProperties, Bool(FALSE))>>)

\* zodToJsonSchema(schema): the document, with the generator's $schema tag.
zodToJsonSchema(schema) ==
    Obj(<<Prop(K_schema, S_draft07)>> \o JsonSchemaOf(schema).fields)

(***************************************************************************)
(* util: trimGeneratedJsonSchema.                                          *)
(***************************************************************************)
\* Mutant: only the generator's metadata is dropped, every other key is kept.
trimGeneratedJsonSchema_KeepRest(schema) ==
    LET NotMeta(p) == p.key # K_schema /\ p.key # K_definitions
        rest == Obj(SelectSeq(schema.fields, NotMeta))
    IN  IF ~HasKey(rest, K_type)
        THEN Threw(InvariantError("The provided Zod schema must be convertible to a JSON schema"))
        ELSE Returned(rest)

trimGeneratedJsonSchema(schema) ==
    LET NotMeta(p) == p.key # K_schema /\ p.key # K_definitions
        rest == Obj(SelectSeq(schema.fields, NotMeta))
    IN  IF ~HasKey(rest, K_type)
        THEN Threw(InvariantError("The provided Zod schema must be convertible to a JSON schema"))
        ELSE IF HasKey(rest, K_properties)
        THEN Returned(Obj(<<Prop(K_type, Get(rest, K_type)),
                            Prop(K_properties, Get(rest, K_properties)),
                            Prop(K_required, Get(rest, K_required)),
                            Prop(K_description, Get(rest, K_description))>>))
        ELSE Returned(Obj(<<Prop(K_type, Get(rest, K_type)),
                            Prop(K_description, Get(rest, K_description))>>))

(***************************************************************************)
(* ai: validateFunction.                                                   *)
(***************************************************************************)
\* Mutant: every return type is taken for a non-object and wrapped.
ProvidedReturnTypeIsAnObject_Never(zodFnReturn) == FALSE

\* providedReturnTypeIsAnObject
ProvidedReturnTypeIsAnObject(zodFnReturn) == zodFnReturn.typeName = "ZodObject"

\* returnTypeWrappedInObject
ReturnTypeWrappedInObject(zodFnReturn) ==
    IF ProvidedReturnTypeIsAnObject(zodFnReturn)
    THEN zodFnReturn
    ELSE ZodObject(<<Field(K_result, zodFnReturn)>>)

\* Mutant: the description is not checked.
validateFunction_NoDescriptionCheck(zodFunction) ==
    IF Len(zodFunction.args) # 1
    THEN Threw(InvariantError("The provided Zod function must have exactly one argument"))
    ELSE IF zodFunction.returns.typeName = "ZodUnknown"
    THEN Threw(InvariantError("The provided Zod function must have a return type"))
    ELSE LET inputSchema == trimGeneratedJsonSchema(zodToJsonSchema(zodFunction.args[1]))
             outputSchema ==
                trimGeneratedJsonSchema(
                    zodToJsonSchema(ReturnTypeWrappedInObject(zodFunction.returns)))
         IN  IF ~inputSchema.ok THEN inputSchema
             ELSE IF ~outputSchema.ok THEN outputSchema
             ELSE Returned([inputSchema |-> inputSchema.value,
                            outputSchema |-> outputSchema.value,
                            description |-> zodFunction.description,
                            returnType |-> zodFunction.returns])

\* The contract validateFunction returns, or what it throws.
validateFunction(zodFunction) ==
    LET argumentItems == zodFunction.args
        zodFnReturn == zodFunction.returns
        description == zodFunction.description
        returnTypeWrappedInObject == ReturnTypeWrappedInObject(zodFnReturn)
    IN  IF Len(argumentItems) # 1
        THEN Threw(InvariantError("The provided Zod function must have exactly one argument"))
        ELSE IF description = Undefined
        THEN Threw(InvariantError("The provided Zod function must have a description"))
        ELSE IF zodFnReturn.typeName = "ZodUnknown"
        THEN Threw(InvariantError("The provided Zod function must have a return type"))
        ELSE LET inputSchema == trimGeneratedJsonSchema(zodToJsonSchema(argumentItems[1]))
                 outputSchema ==
                    trimGeneratedJsonSchema(zodToJsonSchema(returnTypeWrappedInObject))
             IN  IF ~inputSchema.ok THEN inputSchema
                 ELSE IF ~outputSchema.ok THEN outputSchema
                 ELSE Returned([inputSchema |-> inputSchema.value,
                                outputSchema |-> outputSchema.value,
                                description |-> description,
                                returnType |-> zodFnReturn])

\* Mutant: the parsed reply is returned with its "result" wrapper.
postProcessResult_NoUnwrap(contract, result) ==
    LET parsedResult == safeParse(ReturnTypeWrappedInObject(contract.returnType), result)
    IN  IF ~parsedResult.success THEN Threw(ZodError) ELSE Returned(parsedResult.data)

\* The contract's postProcessResult applied to a parsed reply.
postProcessResult(contract, result) ==
    LET parsedResult == safeParse(ReturnTypeWrappedInObject(contract.returnType), result)
    IN  IF ~parsedResult.success THEN Threw(ZodError)
        ELSE IF ProvidedReturnTypeIsAnObject(contract.returnType)
        THEN Returned(parsedResult.data)
        ELSE Returned(Get(parsedResult.data, K_result))

(***************************************************************************)
(* tools: makeTool.                                                        *)
(***************************************************************************)
\* Mutant: an argument is never wrapped under "input".
ShouldOverrideArgumentWithNestedInputKey_Never(argumentType) == FALSE

\* shouldOverrideArgumentWithNestedInputKey
ShouldOverrideArgumentWithNestedInputKey(argumentType) ==
    argumentType # Undefined /\ argumentType.typeName # "ZodObject"

\* Mutant: any number of arguments is accepted.
makeTool_NoArityCheck(zodFunctionSchema, implementation) ==
    LET argumentType ==
            IF zodFunctionSchema.args = <<>> THEN Undefined ELSE zodFunctionSchema.args[1]
        should == ShouldOverrideArgumentWithNestedInputKey(argumentType)
        overriddenFunctionSchema ==
            IF Len(zodFunctionSchema.args) > 1 THEN zodFunctionSchema
            ELSE [zodFunctionSchema EXCEPT !.args =
                    <<IF should THEN ZodObject(<<Field(K_input, argumentType)>>)
                      ELSE argumentType>>]
    IN  Returned([zodFunctionSchema |-> overriddenFunctionSchema,
                  implementation |->
                      [schema |-> overriddenFunctionSchema,
                       shouldOverrideArgumentWithNestedInputKey |-> should,
                       implementation |-> implementation]])

\* makeTool(zodFunctionSchema, implementation): the Tool, or what it throws.  The
\* Tool's implementation is the function zod's implement() makes: it is kept as
\* the schema it checks against and what its callback closes over.
makeTool(zodFunctionSchema, implementation) ==
    IF ~(Len(zodFunctionSchema.args) <= 1)
    THEN Threw(InvariantError(
            "The provided Zod function must have exactly zero arguments or one argument"))
    ELSE LET \* parameters().items[0]: undefined when there is no argument
             argumentType ==
                IF zodFunctionSchema.args = <<>> THEN Undefined ELSE zodFunctionSchema.args[1]
             should == ShouldOverrideArgumentWithNestedInputKey(argumentType)
             overriddenArgumentType ==
                IF should THEN ZodObject(<<Field(K_input, argumentType)>>) ELSE argumentType
             \* zodFunctionSchema.args(overriddenArgumentType): a one-item tuple, whose
             \* item is undefined for a function of no argument
             overriddenFunctionSchema ==
                [zodFunctionSchema EXCEPT !.args = <<overriddenArgumentType>>]
         IN  Returned([zodFunctionSchema |-> overriddenFunctionSchema,
                       implementation |->
                           [schema |-> overriddenFunctionSchema,
                            shouldOverrideArgumentWithNestedInputKey |-> should,
                            implementation |-> implementation]])

\* Mutant: the arguments are passed on without being parsed.
ParseArguments_NoGuard(callable, raw) == [success |-> TRUE, data |-> raw]

\* zod's implement(): the arguments [raw] are parsed against the schema's argument
\* tuple, whose rest type is unknown: an undefined item accepts any value.
ParseArguments(callable, raw) ==
    IF callable.schema.args[1] = Undefined
    THEN [success |-> TRUE, data |-> raw]
    ELSE safeParse(callable.schema.args[1], raw)

\* Mutant: the user's implementation is passed the parsed arguments as they are.
ArgToPassToImplementation_NoUnwrap(callable, rawFromOpenAi) == rawFromOpenAi

\* argToPassToImplementation
ArgToPassToImplementation(callable, rawFromOpenAi) ==
    IF callable.shouldOverrideArgumentWithNestedInputKey
    THEN Get(rawFromOpenAi, K_input)
    ELSE rawFromOpenAi

\* zod's implement(): what the user's implementation returns, or resolves to, is
\* parsed against the declared return type.
ParseReturns(callable, result) == safeParse(callable.schema.returns, result)

(***************************************************************************)
(* tools: the registry, a ToolRecord: its entries [name, tool] in          *)
(* insertion order.                                                        *)
(***************************************************************************)
HasTool(registry, name) == \E i \in 1..Len(registry) : registry[i].name = name

\* tools[name], for a name the registry holds.
ToolNamed(registry, name) ==
    (CHOOSE e \in Range(registry) : e.name = name).tool

(***************************************************************************)
(* tools: formatTools.                                                     *)
(***************************************************************************)
DescriptionAddendumPrefix ==
    <<"R", "e", "s", "p", "o", "n", "s", "e", "s", " ", "w", "i", "l", "l", " ", "m",
      "a", "t", "c", "h", " ", "t", "h", "e", " ", "f", "o", "l", "l", "o", "w", "i",
      "n", "g", " ", "J", "S", "O", "N", "S", "c", "h", "e", "m", "a", " ", "d", "e",
      "f", "i", "n", "i", "t", "i", "o", "n", ":", " ">>

\* A string is truthy when it is defined and not empty.
Truthy(v) == v # Undefined /\ v.s # <<>>

\* Mutant: the description is the reminder alone.
FormatDescription_NoOriginal(description, addendum) == Str(addendum)

\* The description of a formatted tool.
FormatDescription(description, addendum) ==
    Str((IF Truthy(description) THEN description.s \o <<"\n", "\n">> ELSE <<>>) \o addendum)

\* The entry formatTools makes of one tool, or what it throws.
FormatTool(name, fn) ==
    LET functionArguments == fn.zodFunctionSchema.args
        returnSchema == trimGeneratedJsonSchema(zodToJsonSchema(fn.zodFunctionSchema.returns))
        hasParameters == Len(functionArguments) = 1 /\ functionArguments[1] # Undefined
        parameters ==
            IF hasParameters
            THEN trimGeneratedJsonSchema(zodToJsonSchema(functionArguments[1]))
            ELSE Returned(Undefined)
    IN  IF ~(Len(functionArguments) = 1 \/ Len(functionArguments) = 0)
        THEN Threw(InvariantError(
                "The provided Zod function must have exactly zero arguments or one argument"))
        ELSE IF ~returnSchema.ok THEN returnSchema
        ELSE IF ~parameters.ok THEN parameters
        ELSE Returned(
                [type |-> "function",
                 function |->
                    [name |-> name,
                     description |->
                        FormatDescription(
                            fn.zodFunctionSchema.description,
                            DescriptionAddendumPrefix \o JSONstringify(returnSchema.value).s),
                     parameters |-> parameters.value]])

\* formatTools(tools): the list of entries, or what the first failing entry throws.
formatTools(registry) ==
    LET formatted == [i \in 1..Len(registry) |-> FormatTool(registry[i].name, registry[i].tool)]
    IN  IF \E i \in 1..Len(registry) : ~formatted[i].ok
        THEN formatted[CHOOSE i \in 1..Len(registry) :
                          /\ ~formatted[i].ok
                          /\ \A j \in 1..(i - 1) : formatted[j].ok]
        ELSE Returned([i \in 1..Len(registry) |-> formatted[i].value])

(***************************************************************************)
(* tools: handleToolCalls, the parts of one call's callback.               *)
(***************************************************************************)
\* Mutant: every result is JSON-encoded.
CallResultAsString_AlwaysJson(callResult) == JSONstringify(callResult)

\* callResultAsString
CallResultAsString(callResult) ==
    IF callResult.k = "string" THEN callResult
    ELSE IF callResult.k = "number" THEN Str(NumberToString(callResult.n))
    ELSE JSONstringify(callResult)

\* The message a callback returns.
ToolMessage(call, callResult) ==
    [role |-> "tool",
     tool_call_id |-> call.id,
     name |-> call.function.name,
     content |-> CallResultAsString(callResult)]

(***************************************************************************)
(* The inputs the model draws from.                                        *)
(***************************************************************************)
K_name == <<"n", "a", "m", "e">>
K_extra == <<"e", "x", "t", "r", "a">>

\* z.object({ name: z.string() })
NameObject == ZodObject(<<Field(K_name, ZodString)>>)

\* Return types a signature may declare; ZodUnknown is "no .returns()".
ReturnTypes ==
    {ZodString, ZodNumber, ZodArray(ZodString), NameObject, ZodArray(NameObject), ZodUnknown}

\* Argument lists a signature may declare.
ArgumentLists ==
    {<<>>, <<ZodString>>, <<NameObject>>, <<ZodUnknown>>, <<ZodString, ZodNumber>>}

\* Descriptions: none, the empty string, a text.
Descriptions == {Undefined, Str(<<>>), Str(<<"d">>)}

Signatures ==
    {ZodFunction(a, r, d) : a \in ArgumentLists, r \in ReturnTypes, d \in Descriptions}

\* Values a model may put in a reply, bare or under a "result" key.
NameValue == Obj(<<Prop(K_name, Str(<<"a">>))>>)
NameValueExtra == Obj(<<Prop(K_name, Str(<<"a">>)), Prop(K_extra, Num(7))>>)
InnerValues ==
    {Str(<<"a">>), Num(7), Num(72),
     Arr(<<>>), Arr(<<Str(<<"a">>), Str(<<"b">>)>>), Arr(<<Str(<<"a">>), Num(7)>>),
     NameValue, NameValueExtra, Obj(<<Prop(K_name, Num(7))>>), Obj(<<>>),
     Arr(<<NameValue>>), Arr(<<NameValueExtra>>)}

ReplyValues ==
    InnerValues
    \cup {Obj(<<Prop(K_result, v)>>) : v \in InnerValues}
    \cup {Obj(<<Prop(K_extra, Num(7)), Prop(K_result, v)>>) : v \in {Str(<<"a">>), NameValue}}

\* Text a model may reply with: the JSON of a value, or text that is not JSON.
MalformedTexts == {<<>>, <<"{", Quote, "r">>, <<"o", "k">>}
ReplyTexts == {JSONstringify(v).s : v \in ReplyValues} \cup MalformedTexts

\* Arguments the caller passes to a function made by makeAi.
CallerArguments == {Str(<<"a">>), NameValue}

\* Largest number of invocations of one function made by makeAi.
MaxInvocations == 2

(***************************************************************************)
(* The tools and tool-call requests the model draws from.                  *)
(***************************************************************************)
K_temperature == <<"t", "e", "m", "p", "e", "r", "a", "t", "u", "r", "e">>
K_topLevelDescription ==
    <<"t", "o", "p", "L", "e", "v", "e", "l", "D", "e", "s", "c", "r", "i", "p", "t",
      "i", "o", "n">>
K_humidity == <<"h", "u", "m", "i", "d", "i", "t", "y">>

D_getWeather ==
    <<"G", "e", "t", "s", " ", "t", "h", "e", " ", "w", "e", "a", "t", "h", "e", "r",
      " ", "f", "o", "r", " ", "t", "h", "e", " ", "c", "u", "r", "r", "e", "n", "t",
      " ", "u", "s", "e", "r">>
D_resolveContact ==
    <<"R", "e", "s", "o", "l", "v", "e", "s", " ", "a", " ", "c", "o", "n", "t", "a",
      "c", "t", " ", "b", "y", " ", "s", "e", "a", "r", "c", "h", "i", "n", "g", " ",
      "f", "o", "r", " ", "t", "h", "e", "m", " ", "i", "n", " ", "t", "h", "e", " ",
      "u", "s", "e", "r", "'", "s", " ", "c", "o", "n", "t", "a", "c", "t", "s">>
D_getPalindrome ==
    <<"R", "e", "t", "u", "r", "n", "s", " ", "t", "h", "e", " ", "p", "a", "l", "i",
      "n", "d", "r", "o", "m", "e", " ", "o", "f", " ", "t", "h", "e", " ", "i", "n",
      "p", "u", "t", " ", "s", "t", "r", "i", "n", "g">>
ResolvedContactPrefix ==
    <<"R", "e", "s", "o", "l", "v", "e", "d", " ", "c", "o", "n", "t", "a", "c", "t", " ">>

WeatherObject ==
    ZodObject(<<Field(K_temperature, ZodNumber),
                Field(K_topLevelDescription, ZodString),
                Field(K_humidity, ZodString)>>)

\* What a user's implementation returns, or resolves to, for an argument.
ImplementationResult(implementation, argument) ==
    CASE implementation = "getWeather" ->
            Obj(<<Prop(K_temperature, Num(72)),
                  Prop(K_topLevelDescription, Str(<<"S", "u", "n", "n", "y">>)),
                  Prop(K_humidity, Str(<<"L", "o", "w">>))>>)
      [] implementation = "resolveContact" ->
            Str(ResolvedContactPrefix \o Get(argument, K_name).s)
      [] implementation = "getPalindrome" -> Str(Reverse(argument.s))
      [] implementation = "countItems" -> Num(Len(argument.items))
      [] implementation = "logEvent" -> Bool(TRUE)

\* Whether a user's implementation can work on the argument; on any other it
\* throws a TypeError.
ImplementationAccepts(implementation, argument) ==
    CASE implementation = "resolveContact" ->
            argument.k = "object" /\ Get(argument, K_name).k = "string"
      [] implementation = "getPalindrome" -> argument.k = "string"
      [] implementation = "countItems" -> argument.k = "array"
      [] OTHER -> TRUE

\* How a user's implementation may behave when invoked: return a value ("sync"),
\* throw ("throw"), or return a promise that later resolves or rejects ("async").
ImplementationModes(implementation) ==
    CASE implementation = "resolveContact" -> {"async"}
      [] implementation = "countItems" -> {"sync", "throw"}
      [] OTHER -> {"sync"}

\* What a failing implementation throws or rejects with.
ImplementationError == [name |-> "Error", message |-> "implementation failed"]

\* The makeTool calls of a session, in order: three tools of the repository's
\* fixtures, a tool with an array argument and no description, a declaration of
\* two arguments, and a tool that declares no return type.
ToolCandidates ==
    <<[name |-> "getWeather",
       schema |-> ZodFunction(<<>>, WeatherObject, Str(D_getWeather)),
       implementation |-> "getWeather"],
      [name |-> "resolveContact",
       schema |-> ZodFunction(<<NameObject>>, ZodString, Str(D_resolveContact)),
       implementation |-> "resolveContact"],
      [name |-> "getPalindrome",
       schema |-> ZodFunction(<<ZodString>>, ZodString, Str(D_getPalindrome)),
       implementation |-> "getPalindrome"],
      [name |-> "countItems",
       schema |-> ZodFunction(<<ZodArray(NameObject)>>, ZodNumber, Undefined),
       implementation |-> "countItems"],
      [name |-> "sendEmail",
       schema |-> ZodFunction(<<ZodString, ZodString>>, ZodString, Str(<<"d">>)),
       implementation |-> "getPalindrome"],
      [name |-> "logEvent",
       schema |-> ZodFunction(<<NameObject>>, ZodUnknown, Str(<<"d">>)),
       implementation |-> "logEvent"]>>

ToolCallRequest(id, name, arguments) ==
    [id |-> id, type |-> "function", function |-> [name |-> name, arguments |-> arguments]]

T_hello == <<"h", "e", "l", "l", "o">>
T_Alice == <<"A", "l", "i", "c", "e">>

\* The requests a model may make, each with its own id.
ToolCallRequests ==
    {ToolCallRequest("call_1", "getWeather", JSONstringify(Obj(<<>>)).s),
     ToolCallRequest("call_2", "resolveContact",
        JSONstringify(Obj(<<Prop(K_name, Str(T_Alice))>>)).s),
     ToolCallRequest("call_3", "resolveContact",
        JSONstringify(Obj(<<Prop(K_name, Str(T_Alice)), Prop(K_extra, Num(7))>>)).s),
     ToolCallRequest("call_4", "getPalindrome",
        JSONstringify(Obj(<<Prop(K_input, Str(T_hello))>>)).s),
     ToolCallRequest("call_5", "getPalindrome", JSONstringify(Str(T_hello)).s),
     ToolCallRequest("call_6", "countItems",
        JSONstringify(Obj(<<Prop(K_input, Arr(<<NameValue, NameValueExtra>>))>>)).s),
     ToolCallRequest("call_7", "sendEmail",
        JSONstringify(Obj(<<Prop(K_input, Str(T_hello))>>)).s),
     ToolCallRequest("call_8", "getPalindrome", <<"{", Quote, "i", "n", "p", "u", "t", Quote, ":">>),
     ToolCallRequest("call_9", "resolveContact",
        JSONstringify(Obj(<<Prop(K_name, Num(7))>>)).s),
     ToolCallRequest("call_10", "getPalindrome",
        JSONstringify(Obj(<<Prop(K_name, Str(T_Alice))>>)).s)}

\* The batches of requests handleToolCalls may be given.
ToolCallBatches == UNION {[1..n -> ToolCallRequests] : n \in 1..MaxCalls}

(***************************************************************************)
(* State.                                                                  *)
(***************************************************************************)
None == [k |-> "none"]

VARIABLES
    zodFunction,  \* the signature handed to ai(...)
    aiPc,         \* "declared", "ready", "invalid", "awaiting", "returned", "threw"
    contract,     \* what validateFunction returned or threw, None before
    requests,     \* the requests submitted to client.chat.completions.create
    reply,        \* the content of the last reply, None when there is none
    aiOutcome,    \* what the last invocation returned or threw, None while pending
    aiCalls,      \* how many times the made function has been called
    steps,        \* what the last invocation has done so far, in order
    tools,        \* the registry: the tools made so far, [name, tool] in order
    registered,   \* how many of ToolCandidates makeTool has been called on
    lastMakeTool, \* what the last makeTool call returned or threw, None before
    formatted,    \* what formatTools(tools) returned or threw, None when not called
    dispatchPc,   \* handleToolCalls: "idle", "mapping", "awaiting", "settled"
    toolCalls,    \* the batch handleToolCalls was given
    callState,    \* per request, the state of its callback
    invocations,  \* the invocations of users' implementations, in order
    settleOrder,  \* the requests whose callback has settled, in order of settling
    dispatchOutcome, \* what handleToolCalls resolved or rejected with, None while pending
    schema,       \* the document given to trimGeneratedJsonSchema, None when there is none
    trimmed       \* what trimGeneratedJsonSchema(schema) returned or threw, None before

aiVars == <<zodFunction, aiPc, contract, requests, reply, aiOutcome, aiCalls, steps>>
registryVars == <<tools, registered, lastMakeTool, formatted>>
dispatchVars == <<dispatchPc, toolCalls, callState, invocations, settleOrder, dispatchOutcome>>
trimVars == <<schema, trimmed>>
toolVars == <<registryVars, dispatchVars, trimVars>>
vars == <<aiVars, toolVars>>

(***************************************************************************)
(* ai: makeAi.                                                             *)
(***************************************************************************)
AiInit ==
    /\ zodFunction \in Signatures
    /\ aiPc = "declared"
    /\ contract = None
    /\ requests = <<>>
    /\ reply = None
    /\ aiOutcome = None
    /\ aiCalls = 0
    /\ steps = <<>>

\* ai(zodFunction): validateFunction runs when the function is made.
Ai ==
    /\ aiPc = "declared"
    /\ contract' = validateFunction(zodFunction)
    /\ aiPc' = IF contract'.ok THEN "ready" ELSE "invalid"
    /\ UNCHANGED <<zodFunction, requests, reply, aiOutcome, aiCalls, steps, toolVars>>

\* The made function is called: one request is submitted and awaited.
CallAi(argument) ==
    /\ aiPc \in {"ready", "returned", "threw"}
    /\ Len(requests) < MaxInvocations
    /\ requests' = Append(requests, [role |-> "user", content |-> JSONstringify(argument)])
    /\ aiPc' = "awaiting"
    /\ reply' = None
    /\ aiOutcome' = None
    /\ aiCalls' = aiCalls + 1
    /\ steps' = <<"create">>
    /\ UNCHANGED <<zodFunction, contract, toolVars>>

\* Mutant: a reply that is not JSON is swallowed and undefined is returned.
AiResult_Swallow(content) ==
    LET parsed == JSONparse(content)
    IN  IF ~parsed.ok THEN Returned(Undefined)
        ELSE postProcessResult(contract.value, parsed.value)

\* What the made function does with the content of a reply.
AiResult(content) ==
    LET parsed == JSONparse(content)
    IN  IF ~parsed.ok THEN Threw(SyntaxError)
        ELSE postProcessResult(contract.value, parsed.value)

\* Mutant: postProcessResult is reached whatever JSON.parse did.
AiSteps_ValidateAnyway(content) == <<"JSON.parse", "postProcessResult">>

\* The calls the made function makes once the reply is there: JSON.parse, and
\* postProcessResult when JSON.parse returned.
AiSteps(content) ==
    IF JSONparse(content).ok THEN <<"JSON.parse", "postProcessResult">> ELSE <<"JSON.parse">>

\* The awaited request resolves with a reply.
ClientReply(content) ==
    /\ aiPc = "awaiting"
    /\ reply' = Str(content)
    /\ aiOutcome' = AiResult(content)
    /\ aiPc' = IF aiOutcome'.ok THEN "returned" ELSE "threw"
    /\ steps' = steps \o AiSteps(content)
    /\ UNCHANGED <<zodFunction, contract, requests, aiCalls, toolVars>>

\* The awaited request rejects (the client's own failure).
ClientError ==
    /\ aiPc = "awaiting"
    /\ aiOutcome' = Threw([name |-> "APIError", message |-> "request failed"])
    /\ aiPc' = "threw"
    /\ UNCHANGED <<zodFunction, contract, requests, reply, aiCalls, steps, toolVars>>

AiNext ==
    \/ Ai
    \/ \E argument \in CallerArguments : CallAi(argument)
    \/ \E content \in ReplyTexts : ClientReply(content)
    \/ ClientError

(***************************************************************************)
(* tools: a session registers its tools, formats them, and dispatches one  *)
(* batch of tool calls.                                                    *)
(***************************************************************************)
ToolInit ==
    /\ tools = <<>>
    /\ registered = 0
    /\ lastMakeTool = None
    /\ formatted = None
    /\ dispatchPc = "idle"
    /\ toolCalls = <<>>
    /\ callState = <<>>
    /\ invocations = <<>>
    /\ settleOrder = <<>>
    /\ dispatchOutcome = None

\* The next makeTool call of the session; a Tool it returns enters the registry.
MakeTool ==
    /\ dispatchPc = "idle"
    /\ registered < Len(ToolCandidates)
    /\ LET candidate == ToolCandidates[registered + 1]
       IN  /\ lastMakeTool' = makeTool(candidate.schema, candidate.implementation)
           /\ tools' = IF lastMakeTool'.ok
                       THEN Append(tools, [name |-> candidate.name, tool |-> lastMakeTool'.value])
                       ELSE tools
    /\ registered' = registered + 1
    /\ formatted' = None
    /\ UNCHANGED <<dispatchVars, aiVars, trimVars>>

\* formatTools(tools) on the registry as it stands.
FormatTools ==
    /\ dispatchPc = "idle"
    /\ formatted = None
    /\ formatted' = formatTools(tools)
    /\ UNCHANGED <<tools, registered, lastMakeTool, dispatchVars, aiVars, trimVars>>

NewCall == [state |-> "new"]
Awaiting(pending) == [state |-> "awaiting", pending |-> pending]
\* A fulfilled callback: the value it awaited (callResult) and the message it returned.
Fulfilled(callResult, message) ==
    [state |-> "fulfilled", callResult |-> callResult, message |-> message]
Rejected(error) == [state |-> "rejected", error |-> error]

\* handleToolCalls(tools, toolCalls) is called: toolCalls.map begins.
HandleToolCalls(batch) ==
    /\ dispatchPc = "idle"
    /\ registered = Len(ToolCandidates)
    /\ toolCalls' = batch
    /\ callState' = [i \in 1..Len(batch) |-> NewCall]
    /\ dispatchPc' = "mapping"
    /\ UNCHANGED <<invocations, settleOrder, dispatchOutcome, registryVars, aiVars, trimVars>>

\* The behaviours open to the implementation a request names.
CallModes(registry, call) ==
    IF HasTool(registry, call.function.name)
    THEN ImplementationModes(
            ToolNamed(registry, call.function.name).implementation.implementation)
    ELSE {"sync"}

\* The callback of one request up to its await: the tool is looked up, the
\* arguments are parsed, the tool's implementation is called.  The result is the
\* callback's next state and the invocation of the user's implementation, if any.
CallbackStart(registry, call, mode) ==
    LET name == call.function.name
        NoInvocation(next) == [next |-> next, invoked |-> <<>>]
    IN  IF ~HasTool(registry, name) THEN NoInvocation(Rejected(TypeError))
        ELSE LET callable == ToolNamed(registry, name).implementation
                 parsed == JSONparse(call.function.arguments)
             IN  IF ~parsed.ok THEN NoInvocation(Rejected(SyntaxError))
                 ELSE LET args == ParseArguments(callable, parsed.value)
                      IN  IF ~args.success THEN NoInvocation(Rejected(ZodError))
                          ELSE LET argument == ArgToPassToImplementation(callable, args.data)
                                   result ==
                                      ImplementationResult(callable.implementation, argument)
                                   Invocation(next) ==
                                      [next |-> next,
                                       invoked |-> <<[tool |-> name, argument |-> argument]>>]
                               IN  CASE ~ImplementationAccepts(callable.implementation, argument) ->
                                            Invocation(Rejected(TypeError))
                                     [] mode = "throw" ->
                                            Invocation(Rejected(ImplementationError))
                                     [] mode = "sync" ->
                                            IF ParseReturns(callable, result).success
                                            THEN Invocation(Awaiting(
                                                    [settled |-> TRUE,
                                                     value |-> ParseReturns(callable, result).data]))
                                            ELSE Invocation(Rejected(ZodError))
                                     [] mode = "async" ->
                                            Invocation(Awaiting(
                                                [settled |-> FALSE,
                                                 callable |-> callable,
                                                 result |-> result]))

\* Mutant: the requests are served one after the other, and after a failed
\* request the implementations of the later ones are not invoked.
InvokedByCallback_StopAtFailure(i, start) ==
    IF \E j \in 1..(i - 1) : callState[j].state = "rejected"
    THEN <<>>
    ELSE [j \in 1..Len(start.invoked) |->
            [call |-> i, tool |-> start.invoked[j].tool,
             argument |-> start.invoked[j].argument]]

\* The invocations the callback of request i makes in its synchronous part,
\* whatever became of the callbacks before it.
InvokedByCallback(i, start) ==
    [j \in 1..Len(start.invoked) |->
        [call |-> i, tool |-> start.invoked[j].tool, argument |-> start.invoked[j].argument]]

\* toolCalls.map calls the callback of the next request, which runs to its await
\* or throws; after the last one Promise.all is awaited.
StartCall(mode) ==
    /\ dispatchPc = "mapping"
    /\ LET i == CHOOSE i \in 1..Len(toolCalls) :
                    /\ callState[i].state = "new"
                    /\ \A j \in 1..(i - 1) : callState[j].state # "new"
           start == CallbackStart(tools, toolCalls[i], mode)
       IN  /\ mode \in CallModes(tools, toolCalls[i])
           /\ callState' = [callState EXCEPT ![i] = start.next]
           /\ invocations' = invocations \o InvokedByCallback(i, start)
           /\ settleOrder' = IF start.next.state = "rejected"
                             THEN Append(settleOrder, i) ELSE settleOrder
           /\ dispatchPc' = IF i = Len(toolCalls) THEN "awaiting" ELSE "mapping"
    /\ UNCHANGED <<toolCalls, dispatchOutcome, registryVars, aiVars, trimVars>>

\* The callback of request i after its await: the awaited value arrives (a promise
\* resolves, when fate is "resolve") and the message is made, or the promise rejects.
CallbackResume(call, pending, fate) ==
    IF pending.settled THEN Fulfilled(pending.value, ToolMessage(call, pending.value))
    ELSE IF fate = "reject" THEN Rejected(ImplementationError)
    ELSE IF ~ParseReturns(pending.callable, pending.result).success THEN Rejected(ZodError)
    ELSE Fulfilled(ParseReturns(pending.callable, pending.result).data,
                   ToolMessage(call, ParseReturns(pending.callable, pending.result).data))

ResumeCall(i, fate) ==
    /\ dispatchPc \in {"awaiting", "settled"}
    /\ callState[i].state = "awaiting"
    /\ callState[i].pending.settled => fate = "resolve"
    /\ callState' = [callState EXCEPT ![i] = CallbackResume(toolCalls[i], @.pending, fate)]
    /\ settleOrder' = Append(settleOrder, i)
    /\ UNCHANGED <<dispatchPc, toolCalls, invocations, dispatchOutcome, registryVars, aiVars, trimVars>>

\* Mutant: the messages are gathered in the order the callbacks settled.
PromiseAllResult_CompletionOrder(states, order) ==
    IF \E i \in 1..Len(states) : states[i].state = "rejected"
    THEN Threw(states[order[CHOOSE k \in 1..Len(order) :
                                /\ states[order[k]].state = "rejected"
                                /\ \A j \in 1..(k - 1) : states[order[j]].state # "rejected"]].error)
    ELSE Returned([k \in 1..Len(order) |-> states[order[k]].message])

\* Mutant: a failed callback is left out and the other messages are delivered.
PromiseAllResult_Partial(states, order) ==
    LET IsFulfilled(st) == st.state = "fulfilled"
    IN  Returned([k \in 1..Len(SelectSeq(states, IsFulfilled)) |->
                    SelectSeq(states, IsFulfilled)[k].message])

\* Promise.all over the callbacks' promises: rejected with the reason of the first
\* to reject, else resolved with the messages in the order of the requests.
PromiseAllResult(states, order) ==
    IF \E i \in 1..Len(states) : states[i].state = "rejected"
    THEN Threw(states[order[CHOOSE k \in 1..Len(order) :
                                /\ states[order[k]].state = "rejected"
                                /\ \A j \in 1..(k - 1) : states[order[j]].state # "rejected"]].error)
    ELSE Returned([i \in 1..Len(states) |-> states[i].message])

\* Promise.all settles, and with it handleToolCalls: on the first rejection, or
\* when every callback has fulfilled.
PromiseAll ==
    /\ dispatchPc = "awaiting"
    /\ \/ \E i \in 1..Len(callState) : callState[i].state = "rejected"
       \/ \A i \in 1..Len(callState) : callState[i].state = "fulfilled"
    /\ dispatchOutcome' = PromiseAllResult(callState, settleOrder)
    /\ dispatchPc' = "settled"
    /\ UNCHANGED <<toolCalls, callState, invocations, settleOrder, registryVars, aiVars, trimVars>>

ToolNext ==
    \/ MakeTool
    \/ FormatTools
    \/ \E batch \in ToolCallBatches : HandleToolCalls(batch)
    \/ \E mode \in {"sync", "throw", "async"} : StartCall(mode)
    \/ \E i \in 1..Len(callState), fate \in {"resolve", "reject"} : ResumeCall(i, fate)
    \/ PromiseAll

(***************************************************************************)
(* Specifications.  Spec: a function made by makeAi is declared and        *)
(* invoked.  ToolSpec: a tool session.                                     *)
(***************************************************************************)
TrimIdle == schema = None /\ trimmed = None

Init == AiInit /\ ToolInit /\ TrimIdle
Next == AiNext
Spec == Init /\ [][Next]_vars

ToolSpecInit ==
    /\ ToolInit
    /\ TrimIdle
    /\ zodFunction = ZodFunction(<<ZodString>>, ZodString, Str(<<"d">>))
    /\ aiPc = "declared"
    /\ contract = None
    /\ requests = <<>>
    /\ reply = None
    /\ aiOutcome = None
    /\ aiCalls = 0
    /\ steps = <<>>
ToolSpec == ToolSpecInit /\ [][ToolNext]_vars

(***************************************************************************)
(* TrimSpec: trimGeneratedJsonSchema is given a document of the generator. *)
(***************************************************************************)
\* The types whose documents are trimmed.
TrimFieldTypes == {ZodString, ZodNumber, ZodUnknown}
TrimTypes ==
    TrimFieldTypes
    \cup {ZodArray(e) : e \in TrimFieldTypes \cup {NameObject}}
    \cup {ZodObject(<<>>), ZodObject(<<Field(K_name, NameObject)>>)}
    \cup {ZodObject(<<Field(key, a)>>) : key \in {K_name, K_extra}, a \in TrimFieldTypes}
    \cup {ZodObject(<<Field(K_name, a), Field(K_extra, b)>>) :
                a \in TrimFieldTypes, b \in TrimFieldTypes}

\* The document of a type: as generated, with the description of a described
\* type, with the definitions the generator was asked to carry.
Described(document) == Obj(SetKey(document.fields, K_description, Str(<<"d">>)))
WithDefinitions(document) ==
    Obj(SetKey(document.fields, K_definitions,
               Obj(<<Prop(K_name, JsonSchemaOf(ZodString))>>)))
TrimInputs ==
    LET generated == {zodToJsonSchema(type) : type \in TrimTypes}
        described == generated \cup {Described(d) : d \in generated}
    IN  described \cup {WithDefinitions(d) : d \in described}

\* trimGeneratedJsonSchema(schema) is called.
Trim ==
    /\ schema # None
    /\ trimmed = None
    /\ trimmed' = trimGeneratedJsonSchema(schema)
    /\ UNCHANGED <<schema, aiVars, registryVars, dispatchVars>>

TrimNext == Trim

TrimSpecInit ==
    /\ ToolInit
    /\ zodFunction = ZodFunction(<<ZodString>>, ZodString, Str(<<"d">>))
    /\ aiPc = "declared"
    /\ contract = None
    /\ requests = <<>>
    /\ reply = None
    /\ aiOutcome = None
    /\ aiCalls = 0
    /\ steps = <<>>
    /\ schema \in TrimInputs
    /\ trimmed = None
TrimSpec == TrimSpecInit /\ [][TrimNext]_vars

(***************************************************************************)
(* Notions the claims are stated with.                                     *)
(***************************************************************************)
\* v is accepted by the type: validation of v succeeds.
ValidUnder(type, v) == safeParse(type, v).success

\* w is v without the properties the type does not declare, at any depth.
RECURSIVE StripsTo(_, _, _)
StripsTo(type, v, w) ==
    CASE type.typeName = "ZodArray" ->
            /\ v.k = "array" /\ w.k = "array"
            /\ Len(v.items) = Len(w.items)
            /\ \A i \in 1..Len(v.items) : StripsTo(type.type, v.items[i], w.items[i])
      [] type.typeName = "ZodObject" ->
            /\ v.k = "object" /\ w.k = "object"
            /\ Keys(w) = {type.shape[i].key : i \in 1..Len(type.shape)}
            /\ \A i \in 1..Len(type.shape) :
                  StripsTo(type.shape[i].type, Get(v, type.shape[i].key),
                           Get(w, type.shape[i].key))
      [] OTHER -> DeepEqual(v, w)

\* v carries no property the type does not declare, at any depth.
RECURSIVE NoUndeclaredKeys(_, _)
NoUndeclaredKeys(type, v) ==
    CASE type.typeName = "ZodArray" ->
            v.k = "array" => \A i \in 1..Len(v.items) : NoUndeclaredKeys(type.type, v.items[i])
      [] type.typeName = "ZodObject" ->
            v.k = "object" =>
                /\ Keys(v) \subseteq {type.shape[i].key : i \in 1..Len(type.shape)}
                /\ \A i \in 1..Len(type.shape) :
                      NoUndeclaredKeys(type.shape[i].type, Get(v, type.shape[i].key))
      [] OTHER -> TRUE

\* The schema document {type: "object", properties: {key: schema of its type, ...},
\* required: [key, ...]} of an object type with the given shape.
ObjectSchemaDocument(shape) ==
    Obj(<<Prop(K_type, S_object),
          Prop(K_properties,
               Obj([i \in 1..Len(shape) |-> Prop(shape[i].key, JsonSchemaOf(shape[i].type))])),
          Prop(K_required, Arr([i \in 1..Len(shape) |-> Str(shape[i].key)]))>>)

\* An invocation has ended on a reply that parsed as JSON.
Replied == aiPc \in {"returned", "threw"} /\ reply # None /\ JSONparse(reply.s).ok
ReplyValue == JSONparse(reply.s).value

\* The reply is exactly {result: v}.
ReplyIsResultOnly == ReplyValue.k = "object" /\ Keys(ReplyValue) = {K_result}

(***************************************************************************)
(* C1: for a signature whose return type T is not an object type, the      *)
(* output schema is {type: "object", properties: {result: schema of T},    *)
(* required: ["result"]}, and a reply {result: v} with v valid under T     *)
(* makes the function return exactly v.                                    *)
(***************************************************************************)
C1_SchemaWrapped ==
    (contract # None /\ contract.ok /\ zodFunction.returns.typeName # "ZodObject") =>
        DeepEqual(contract.value.outputSchema,
                  ObjectSchemaDocument(<<Field(K_result, zodFunction.returns)>>))

\* The claim as stated: the returned value is v itself.
C1_AsStated ==
    /\ C1_SchemaWrapped
    /\ (/\ Replied
        /\ zodFunction.returns.typeName # "ZodObject"
        /\ ReplyIsResultOnly
        /\ ValidUnder(zodFunction.returns, Get(ReplyValue, K_result))) =>
            /\ aiOutcome.ok
            /\ DeepEqual(aiOutcome.value, Get(ReplyValue, K_result))

\* C1, amended: the returned value is v without the properties that T does not
\* declare in objects nested in v; it is v itself when v carries none.
C1_Unwrap ==
    /\ C1_SchemaWrapped
    /\ (/\ Replied
        /\ zodFunction.returns.typeName # "ZodObject"
        /\ ReplyIsResultOnly
        /\ ValidUnder(zodFunction.returns, Get(ReplyValue, K_result))) =>
            /\ aiOutcome.ok
            /\ StripsTo(zodFunction.returns, Get(ReplyValue, K_result), aiOutcome.value)
            /\ NoUndeclaredKeys(zodFunction.returns, Get(ReplyValue, K_result)) =>
                  DeepEqual(aiOutcome.value, Get(ReplyValue, K_result))

\* The reply {"result":["a","b"]} for array<string> has yielded ["a","b"].
C1_Witness ==
    /\ aiPc = "returned"
    /\ zodFunction.returns = ZodArray(ZodString)
    /\ reply = Str(<<"{", Quote, "r", "e", "s", "u", "l", "t", Quote, ":", "[",
                     Quote, "a", Quote, ",", Quote, "b", Quote, "]", "}">>)
    /\ aiOutcome = Returned(Arr(<<Str(<<"a">>), Str(<<"b">>)>>))
    /\ DeepEqual(contract.value.outputSchema,
                 Obj(<<Prop(K_type, S_object),
                       Prop(K_properties,
                            Obj(<<Prop(K_result,
                                       Obj(<<Prop(K_type, S_array),
                                             Prop(K_items, Obj(<<Prop(K_type, S_string)>>))>>))>>)),
                       Prop(K_required, Arr(<<Str(K_result)>>))>>))

(***************************************************************************)
(* C2: for a signature whose return type T is an object type, the output   *)
(* schema is the schema of T itself, with no "result" wrapper, and a reply *)
(* v valid under T makes the function return v unchanged.                  *)
(***************************************************************************)
C2_SchemaDirect ==
    (contract # None /\ contract.ok /\ zodFunction.returns.typeName = "ZodObject") =>
        /\ DeepEqual(contract.value.outputSchema,
                     ObjectSchemaDocument(zodFunction.returns.shape))
        /\ ~HasKey(Get(contract.value.outputSchema, K_properties), K_result)

\* The claim as stated: the returned value is v itself.
C2_AsStated ==
    /\ C2_SchemaDirect
    /\ (/\ Replied
        /\ zodFunction.returns.typeName = "ZodObject"
        /\ ValidUnder(zodFunction.returns, ReplyValue)) =>
            /\ aiOutcome.ok
            /\ DeepEqual(aiOutcome.value, ReplyValue)

\* C2, amended: the returned value is v without the properties that T does not
\* declare; it is v itself when v carries none.
C2_NoWrap ==
    /\ C2_SchemaDirect
    /\ (/\ Replied
        /\ zodFunction.returns.typeName = "ZodObject"
        /\ ValidUnder(zodFunction.returns, ReplyValue)) =>
            /\ aiOutcome.ok
            /\ StripsTo(zodFunction.returns, ReplyValue, aiOutcome.value)
            /\ NoUndeclaredKeys(zodFunction.returns, ReplyValue) =>
                  DeepEqual(aiOutcome.value, ReplyValue)

\* The reply {"name":"a"} for the object type {name: string} has yielded {name: "a"}.
C2_Witness ==
    /\ aiPc = "returned"
    /\ zodFunction.returns = NameObject
    /\ reply = Str(<<"{", Quote, "n", "a", "m", "e", Quote, ":", Quote, "a", Quote, "}">>)
    /\ aiOutcome = Returned(NameValue)

(***************************************************************************)
(* C3: validateFunction fails when the description is absent, when the     *)
(* return type is unspecified, or when the argument list does not hold     *)
(* exactly one element, and succeeds when all three requirements are met.  *)
(***************************************************************************)
SignatureRequirementsMet ==
    /\ zodFunction.description # Undefined
    /\ zodFunction.returns.typeName # "ZodUnknown"
    /\ Len(zodFunction.args) = 1

\* The claim as stated.
C3_AsStated == aiPc # "declared" => (contract.ok <=> SignatureRequirementsMet)

\* C3, amended: it succeeds when all three requirements are met and the
\* argument's type has a JSON Schema "type" (it is not the unknown type).
C3_Validate ==
    aiPc # "declared" =>
        /\ ~SignatureRequirementsMet => ~contract.ok
        /\ contract.ok <=>
              (SignatureRequirementsMet /\ zodFunction.args[1].typeName # "ZodUnknown")

\* A signature with one argument and a return type but no description was refused.
C3_Witness ==
    /\ aiPc = "invalid"
    /\ zodFunction.description = Undefined
    /\ zodFunction.returns = ZodString
    /\ zodFunction.args = <<NameObject>>
    /\ ~contract.ok
(***************************************************************************)
(* Notions the tool claims are stated with.                                *)
(***************************************************************************)
\* The declaration makeTool was given for the tool of this name.
Declared(name) == (CHOOSE c \in Range(ToolCandidates) : c.name = name).schema

\* The callback of request i has run its synchronous part.
Started(i) == i \in 1..Len(callState) /\ callState[i].state # "new"

\* The invocations of users' implementations made for request i.
InvocationsOf(i) == {k \in 1..Len(invocations) : invocations[k].call = i}

\* What JSON.parse made of request i's rawArguments.
RawArguments(i) == JSONparse(toolCalls[i].function.arguments).value

(***************************************************************************)
(* C4: a successful handleToolCalls returns exactly one message per        *)
(* request, the i-th with role "tool", the i-th request's id as            *)
(* tool_call_id and its function name as name, whatever the order in which *)
(* the implementations completed.                                          *)
(***************************************************************************)
C4_RequestOrder ==
    (dispatchPc = "settled" /\ dispatchOutcome.ok) =>
        /\ Len(dispatchOutcome.value) = Len(toolCalls)
        /\ \A i \in 1..Len(toolCalls) :
              /\ dispatchOutcome.value[i].role = "tool"
              /\ dispatchOutcome.value[i].tool_call_id = toolCalls[i].id
              /\ dispatchOutcome.value[i].name = toolCalls[i].function.name
              /\ dispatchOutcome.value[i] = callState[i].message

\* Two requests with different ids completed in reverse order and were delivered.
C4_Witness ==
    /\ dispatchPc = "settled"
    /\ dispatchOutcome.ok
    /\ settleOrder = <<2, 1>>
    /\ toolCalls[1].id # toolCalls[2].id
    /\ dispatchOutcome.value[1].tool_call_id = toolCalls[1].id

(***************************************************************************)
(* C5: a tool whose single argument type T is not an object takes its      *)
(* argument on the wire as {input: T}, and its implementation is called    *)
(* with x when the rawArguments encode {"input": x}; a tool whose argument *)
(* is an object type has its implementation called with the parsed object. *)
(***************************************************************************)
\* makeTool declared the wire schema: {input: T} for a non-object T, else T.
C5_WireSchema ==
    \A e \in Range(tools) :
        Len(Declared(e.name).args) = 1 =>
            LET T == Declared(e.name).args[1]
            IN  /\ T.typeName # "ZodObject" =>
                      e.tool.zodFunctionSchema.args = <<ZodObject(<<Field(K_input, T)>>)>>
                /\ T.typeName = "ZodObject" => e.tool.zodFunctionSchema.args = <<T>>

\* The claim as stated: the implementation receives x, or the parsed object, itself.
C5_AsStated ==
    /\ C5_WireSchema
    /\ \A k \in 1..Len(invocations) :
          LET i == invocations[k].call
              T == Declared(toolCalls[i].function.name).args
          IN  Len(T) = 1 =>
                 IF T[1].typeName # "ZodObject"
                 THEN DeepEqual(invocations[k].argument, Get(RawArguments(i), K_input))
                 ELSE DeepEqual(invocations[k].argument, RawArguments(i))

\* C5, amended: the implementation receives x (or, for an object type, the parsed
\* object) without the properties the argument type does not declare; it is x (the
\* parsed object) itself when it carries none.
C5_Unwrap ==
    /\ C5_WireSchema
    /\ \A k \in 1..Len(invocations) :
          LET i == invocations[k].call
              T == Declared(toolCalls[i].function.name).args
              x == IF T[1].typeName # "ZodObject"
                   THEN Get(RawArguments(i), K_input)
                   ELSE RawArguments(i)
          IN  Len(T) = 1 =>
                 /\ StripsTo(T[1], x, invocations[k].argument)
                 /\ NoUndeclaredKeys(T[1], x) => DeepEqual(invocations[k].argument, x)

\* The request {"input":"hello"} for the string-reversing tool has yielded "olleh".
C5_Witness ==
    /\ Len(toolCalls) >= 1
    /\ toolCalls[1].function.name = "getPalindrome"
    /\ toolCalls[1].function.arguments =
          <<"{", Quote, "i", "n", "p", "u", "t", Quote, ":",
            Quote, "h", "e", "l", "l", "o", Quote, "}">>
    /\ invocations # <<>>
    /\ invocations[1] = [call |-> 1, tool |-> "getPalindrome", argument |-> Str(T_hello)]
    /\ callState[1].state = "fulfilled"
    /\ callState[1].message.content = Str(<<"o", "l", "l", "e", "h">>)

(***************************************************************************)
(* C6: the content of a result message is the awaited return value when    *)
(* that is a string, its decimal digits when it is a number, and its JSON  *)
(* encoding otherwise.                                                     *)
(***************************************************************************)
C6_Content ==
    \A i \in 1..Len(callState) :
        callState[i].state = "fulfilled" =>
            LET callResult == callState[i].callResult
                content == callState[i].message.content
            IN  /\ content.k = "string"
                /\ callResult.k = "string" => content.s = callResult.s
                /\ callResult.k = "number" =>
                      /\ \A c \in Range(content.s) : IsDigit(c)
                      /\ DigitsToNumber(content.s) = callResult.n
                      /\ (Len(content.s) > 1 => content.s[1] # "0")
                /\ callResult.k \notin {"string", "number"} =>
                      /\ JSONparse(content.s).ok
                      /\ DeepEqual(JSONparse(content.s).value, callResult)

\* A string result was delivered without quotes and an object result as JSON.
C6_Witness ==
    /\ Len(callState) = 2
    /\ callState[1].state = "fulfilled"
    /\ callState[1].callResult.k = "string"
    /\ callState[1].message.content = Str(ResolvedContactPrefix \o T_Alice)
    /\ callState[2].state = "fulfilled"
    /\ callState[2].callResult.k = "object"
    /\ callState[2].message.content =
          Str(<<"{", Quote>> \o K_temperature \o <<Quote, ":", "7", "2", ",", Quote>>
              \o K_topLevelDescription \o <<Quote, ":", Quote, "S", "u", "n", "n", "y", Quote, ",", Quote>>
              \o K_humidity \o <<Quote, ":", Quote, "L", "o", "w", Quote, "}">>)

\* A number result was delivered as its decimal digits.
C6_NumberDelivered ==
    \E i \in 1..Len(callState) :
        /\ callState[i].state = "fulfilled"
        /\ callState[i].callResult = Num(2)
        /\ callState[i].message.content = Str(<<"2">>)

(***************************************************************************)
(* C7: when a tool call of a batch fails, handleToolCalls rejects with     *)
(* that failure and delivers no results: the results of the calls that     *)
(* succeeded are discarded.                                                *)
(***************************************************************************)
FailedCalls == {i \in 1..Len(callState) : callState[i].state = "rejected"}

C7_FailWhole ==
    /\ (dispatchPc = "settled" /\ FailedCalls # {}) =>
          /\ ~dispatchOutcome.ok
          /\ "value" \notin DOMAIN dispatchOutcome
          /\ \E i \in FailedCalls : dispatchOutcome.error = callState[i].error
          /\ dispatchOutcome.error = callState[
                settleOrder[CHOOSE k \in 1..Len(settleOrder) :
                               /\ settleOrder[k] \in FailedCalls
                               /\ \A j \in 1..(k - 1) : settleOrder[j] \notin FailedCalls]].error
    /\ (dispatchPc = "settled" /\ dispatchOutcome.ok) => FailedCalls = {}

\* One implementation rejected after its sibling had succeeded: the batch was
\* rejected with that failure.
C7_Witness ==
    /\ dispatchPc = "settled"
    /\ Len(callState) = 2
    /\ callState[1].state = "fulfilled"
    /\ callState[2] = Rejected(ImplementationError)
    /\ settleOrder = <<1, 2>>
    /\ dispatchOutcome = Threw(ImplementationError)

(***************************************************************************)
(* C8: a request that names a tool the registry does not hold fails with   *)
(* an UnknownToolError, and no implementation is invoked for it.           *)
(***************************************************************************)
C8_UnknownTool ==
    \A i \in 1..Len(callState) :
        (Started(i) /\ ~HasTool(tools, toolCalls[i].function.name)) =>
            /\ callState[i].state = "rejected"
            /\ callState[i].error.name = "UnknownToolError"
            /\ InvocationsOf(i) = {}

(***************************************************************************)
(* C9: formatTools emits one entry {type: "function", function: {name,     *)
(* description, parameters?}} per registry entry, named by the registry    *)
(* key, without parameters for a tool of no argument and with the          *)
(* (possibly {input: T}-wrapped) argument schema otherwise; the            *)
(* description is the tool's description, a blank line, and a reminder     *)
(* that holds the JSON of the return type's schema.                        *)
(***************************************************************************)
\* The trimmed schema document of a declared return type.
ReturnSchemaDocument(type) ==
    CASE type.typeName = "ZodObject" -> ObjectSchemaDocument(type.shape)
      [] type.typeName = "ZodString" -> Obj(<<Prop(K_type, S_string)>>)
      [] type.typeName = "ZodNumber" -> Obj(<<Prop(K_type, S_number)>>)
      [] type.typeName = "ZodArray" -> Obj(<<Prop(K_type, S_array)>>)

\* The reminder appended to a description.
Reminder(type) == DescriptionAddendumPrefix \o JSONstringify(ReturnSchemaDocument(type)).s

\* The parameters of the entry of a declared tool.
ParametersAsClaimed(entry, declared) ==
    IF declared.args = <<>> THEN entry.function.parameters = Undefined
    ELSE DeepEqual(entry.function.parameters,
                   IF declared.args[1].typeName = "ZodObject"
                   THEN ObjectSchemaDocument(declared.args[1].shape)
                   ELSE ObjectSchemaDocument(<<Field(K_input, declared.args[1])>>))

C10_Arity ==
    /\ \A k \in 1..registered :
          Len(ToolCandidates[k].schema.args) > 1 =>
              /\ ~HasTool(tools, ToolCandidates[k].name)
              /\ registered = k =>
                    /\ ~lastMakeTool.ok
                    /\ lastMakeTool.error.name = "Error"
                    /\ "value" \notin DOMAIN lastMakeTool
    /\ \A e \in Range(tools) :
          /\ Len(Declared(e.name).args) \in {0, 1}
          /\ Len(e.tool.zodFunctionSchema.args) \in {0, 1}

\* The declaration of two arguments was refused and is not in the registry, which
\* holds the tools declared before it.
C10_Witness ==
    /\ registered = 5
    /\ Len(ToolCandidates[5].schema.args) = 2
    /\ ~lastMakeTool.ok
    /\ ~HasTool(tools, "sendEmail")
    /\ Len(tools) = 4

(***************************************************************************)
(* C11: validateFunction requires the description to be non-empty: a       *)
(* signature whose description is present but is the empty string is       *)
(* refused for its description, like a signature with no description.      *)
(***************************************************************************)
\* The refusal validateFunction gives a signature without description.
DescriptionRequired ==
    Threw(InvariantError("The provided Zod function must have a description"))

\* C11 as stated: with exactly one argument declared (so that the argument check
\* passes), an absent and an empty description are both refused for the description.
C11_EmptyDescription ==
    (aiPc # "declared" /\ Len(zodFunction.args) = 1
        /\ zodFunction.description \in {Undefined, Str(<<>>)})
    => contract = DescriptionRequired

\* What the code does with the two descriptions: the absent one is refused, the
\* empty one is accepted like any other text.
C11_OnlyAbsentRefused ==
    (aiPc # "declared" /\ Len(zodFunction.args) = 1) =>
        /\ zodFunction.description = Undefined => contract = DescriptionRequired
        /\ zodFunction.description = Str(<<>>) => contract # DescriptionRequired

\* A signature with the empty description was accepted and its function invoked.
C11_EmptyAccepted ==
    /\ zodFunction = ZodFunction(<<ZodString>>, ZodString, Str(<<>>))
    /\ aiPc = "returned"
    /\ contract.ok
    /\ contract.value.description = Str(<<>>)
    /\ Len(requests) = 1

(***************************************************************************)
(* C12: each invocation of a function made by makeAi submits exactly one   *)
(* request, then parses the reply, then validates and unwraps it; a reply  *)
(* that is not JSON, or that fails validation against the (possibly        *)
(* wrapped) output type, surfaces as an error to the caller, validation is *)
(* not run on a reply that is not JSON, and no request is ever resubmitted.*)
(***************************************************************************)
\* What holds of every state of an invocation.
C12_Invocation ==
    /\ Len(requests) = aiCalls
    /\ aiPc = "awaiting" => (steps = <<"create">> /\ aiOutcome = None)
    /\ (aiPc \in {"returned", "threw"} /\ reply # None) =>
          LET parsed == JSONparse(reply.s)
              wrapped == ReturnTypeWrappedInObject(zodFunction.returns)
          IN  /\ ~parsed.ok =>
                    /\ aiOutcome = Threw(SyntaxError)
                    /\ steps = <<"create", "JSON.parse">>
              /\ parsed.ok =>
                    /\ steps = <<"create", "JSON.parse", "postProcessResult">>
                    /\ ~ValidUnder(wrapped, parsed.value) => aiOutcome = Threw(ZodError)
                    /\ ValidUnder(wrapped, parsed.value) => aiOutcome.ok
    /\ (aiPc = "threw" /\ reply = None) => (steps = <<"create">> /\ ~aiOutcome.ok)

\* What holds of every step: only a call by the caller submits a request, and a
\* pending invocation ends with its reply, whatever the reply is.
C12_Step ==
    /\ requests' # requests =>
          /\ aiCalls' = aiCalls + 1
          /\ requests' = Append(requests, requests'[Len(requests')])
          /\ aiPc \in {"ready", "returned", "threw"}
    /\ aiPc = "awaiting" => (requests' = requests /\ aiPc' \in {"returned", "threw"})

\* C12: one request per invocation, parse before validation, errors surfaced,
\* no validation of a reply that is not JSON, no retry.
C12_OneRequestNoRetry == [](C12_Invocation) /\ [][C12_Step]_vars

\* An invocation failed on a reply that is not JSON: it made one request, parsed,
\* and threw without validating.
C12_Witness ==
    /\ aiPc = "threw"
    /\ aiCalls = 1
    /\ Len(requests) = 1
    /\ reply = Str(<<"o", "k">>)
    /\ aiOutcome = Threw(SyntaxError)
    /\ steps = <<"create", "JSON.parse">>

\* An invocation failed on a reply that is JSON but not valid under the wrapped
\* output type; the caller called again, which made the second request.
C12_ValidationFailed ==
    /\ aiPc = "threw"
    /\ aiCalls = 2
    /\ Len(requests) = 2
    /\ zodFunction.returns = ZodString
    /\ reply = JSONstringify(Obj(<<Prop(K_result, Num(7))>>))
    /\ aiOutcome = Threw(ZodError)
    /\ steps = <<"create", "JSON.parse", "postProcessResult">>

(***************************************************************************)
(* C13: trimGeneratedJsonSchema fails when its input has no "type" key,    *)
(* and otherwise returns a document that always has "type", carries no     *)
(* generator metadata ($schema, definitions) nor any key other than type,  *)
(* properties, required, description, and has "properties" or "required"   *)
(* only when the type is "object".                                         *)
(***************************************************************************)
TrimmedKeys == {K_type, K_properties, K_required, K_description}

C13_Trimmed ==
    trimmed # None =>
        /\ ~HasKey(schema, K_type) =>
              /\ ~trimmed.ok
              /\ trimmed.error.name = "Error"
              /\ "value" \notin DOMAIN trimmed
        /\ HasKey(schema, K_type) =>
              /\ trimmed.ok
              /\ HasKey(trimmed.value, K_type)
              /\ Get(trimmed.value, K_type) = Get(schema, K_type)
              /\ Keys(trimmed.value) \subseteq TrimmedKeys
              /\ (HasKey(trimmed.value, K_properties) \/ HasKey(trimmed.value, K_required))
                    => Get(trimmed.value, K_type) = S_object
              /\ Get(trimmed.value, K_properties) = Get(schema, K_properties)
              /\ Get(trimmed.value, K_required) = Get(schema, K_required)
              /\ Get(trimmed.value, K_description) = Get(schema, K_description)

\* The document of a described object type, carrying $schema, definitions and
\* additionalProperties, was trimmed to its type, properties, required and
\* description.
C13_Witness ==
    /\ schema = WithDefinitions(Described(zodToJsonSchema(NameObject)))
    /\ Keys(schema) = TrimmedKeys \cup {K_schema, K_definitions, K_additionalProperties}
    /\ trimmed # None
    /\ trimmed.ok
    /\ Keys(trimmed.value) = TrimmedKeys
    /\ Get(trimmed.value, K_type) = S_object

\* The document of the unknown type, which has no "type", was refused.
C13_Refused ==
    /\ schema = zodToJsonSchema(ZodUnknown)
    /\ trimmed # None
    /\ ~trimmed.ok

\* The document of an array type was trimmed to its type: "items" is dropped.
C13_ArrayTrimmed ==
    /\ schema = zodToJsonSchema(ZodArray(ZodString))
    /\ HasKey(schema, K_items)
    /\ trimmed # None
    /\ trimmed.ok
    /\ Keys(trimmed.value) = {K_type, K_description}

(***************************************************************************)
(* C14: handleToolCalls fans out: the implementation of every request is   *)
(* started, in request order, before the result of any implementation is   *)
(* waited for, so a call that is slow or never completes does not delay    *)
(* the start of the later ones; and when a call fails the implementations  *)
(* of its siblings have been invoked all the same.                         *)
(***************************************************************************)
\* Request i reaches its implementation: it names a tool of the registry and its
\* rawArguments are JSON that the tool's argument schema accepts.
ReachesImplementation(i) ==
    /\ HasTool(tools, toolCalls[i].function.name)
    /\ JSONparse(toolCalls[i].function.arguments).ok
    /\ ParseArguments(ToolNamed(tools, toolCalls[i].function.name).implementation,
                      RawArguments(i)).success

C14_FanOut ==
    \* started in request order, each request once
    /\ \A a, b \in 1..Len(invocations) : a < b => invocations[a].call < invocations[b].call
    \* nothing is waited for or delivered while requests are still to be started
    /\ dispatchPc = "mapping" =>
          /\ dispatchOutcome = None
          /\ \A i \in 1..Len(callState) : callState[i].state # "fulfilled"
    \* once the results are waited for, and whatever failed or is still pending,
    \* every request that reaches its implementation has had it invoked
    /\ dispatchPc \in {"awaiting", "settled"} =>
          \A i \in 1..Len(toolCalls) :
              /\ Started(i)
              /\ ReachesImplementation(i) <=> InvocationsOf(i) # {}

\* The first call never completed and the second failed: the batch failed, and
\* both implementations had been invoked, in request order.
C14_Witness ==
    /\ dispatchPc = "settled"
    /\ Len(toolCalls) = 2
    /\ callState[1].state = "awaiting"
    /\ ~callState[1].pending.settled
    /\ callState[2] = Rejected(ImplementationError)
    /\ ~dispatchOutcome.ok
    /\ Len(invocations) = 2
    /\ invocations[1].call = 1 /\ invocations[1].tool = "resolveContact"
    /\ invocations[2].call = 2 /\ invocations[2].tool = "countItems"

\* The first call failed and the implementation of the second was invoked after it.
C14_SiblingOfFailedInvoked ==
    /\ dispatchPc = "settled"
    /\ Len(toolCalls) = 2
    /\ callState[1] = Rejected(ImplementationError)
    /\ dispatchOutcome = Threw(ImplementationError)
    /\ InvocationsOf(2) # {}
    /\ invocations[2].tool = "getPalindrome"

(***************************************************************************)
(* C15: the implementation makeTool stores in a Tool is guarded by the     *)
(* tool's (possibly {input: T}-wrapped) argument schema: called with       *)
(* parsed rawArguments that do not conform to it (a bare string, or an     *)
(* object without "input", for a wrapped tool), the call fails with a      *)
(* validation error and the user's implementation is not invoked with the  *)
(* non-conforming value.                                                   *)
(***************************************************************************)
\* The argument schema the Tool named by request i checks against.
WireArgument(i) == ToolNamed(tools, toolCalls[i].function.name).zodFunctionSchema.args[1]

\* Request i names a registered tool that declares an argument, and its
\* rawArguments are JSON.
GuardedCall(i) ==
    /\ HasTool(tools, toolCalls[i].function.name)
    /\ Len(Declared(toolCalls[i].function.name).args) = 1
    /\ JSONparse(toolCalls[i].function.arguments).ok

C15_Guarded ==
    /\ \A i \in 1..Len(toolCalls) :
          (Started(i) /\ GuardedCall(i) /\ ~ValidUnder(WireArgument(i), RawArguments(i))) =>
              /\ callState[i] = Rejected(ZodError)
              /\ InvocationsOf(i) = {}
    /\ \A k \in 1..Len(invocations) :
          LET T == Declared(invocations[k].tool).args
          IN  Len(T) = 1 => ValidUnder(T[1], invocations[k].argument)

\* A bare string for the wrapped string tool, and an object without "input" for
\* it, were both refused with the validation error, and nothing was invoked.
C15_Witness ==
    /\ Len(toolCalls) = 2
    /\ toolCalls[1].function.name = "getPalindrome"
    /\ toolCalls[1].function.arguments = JSONstringify(Str(T_hello)).s
    /\ toolCalls[2].function.name = "getPalindrome"
    /\ toolCalls[2].function.arguments =
          JSONstringify(Obj(<<Prop(K_name, Str(T_Alice))>>)).s
    /\ WireArgument(1) = ZodObject(<<Field(K_input, ZodString)>>)
    /\ callState[1] = Rejected(ZodError)
    /\ callState[2] = Rejected(ZodError)
    /\ invocations = <<>>
    /\ dispatchPc = "settled"
    /\ dispatchOutcome = Threw(ZodError)

\* An object whose "name" is a number was refused for the tool of an object argument.
C15_ObjectRefused ==
    /\ Len(toolCalls) = 1
    /\ toolCalls[1].function.name = "resolveContact"
    /\ toolCalls[1].function.arguments = JSONstringify(Obj(<<Prop(K_name, Num(7))>>)).s
    /\ callState[1] = Rejected(ZodError)
    /\ invocations = <<>>
====
